---- MODULE Spec2Model ----
(***************************************************************************)
(* Partition table support of the generic block device interface           *)
(* (services/posix/devio/blockio/src/blockio.c):                           *)
(*   blockio_write_partitiontable, blockio_write_partitiontype,            *)
(*   blockio_select_partition.                                             *)
(*                                                                         *)
(* Number representation.  Every 32-bit quantity of the C code (int32_t,   *)
(* uint32_t, int) is held as the value of its bit pattern read as a two's  *)
(* complement int32, i.e. an integer in INT32_MIN..INT32_MAX.  A uint32_t  *)
(* u >= 2^31 is therefore held as u - 2^32.  Addition, subtraction and     *)
(* multiplication reduce modulo 2^32 (AddW, SubW, MulW); unsigned          *)
(* comparisons are ULe/ULt; the uint32 -> int32 conversions of the code    *)
(* keep the bit pattern.  The 64-bit product and quotient of the relative  *)
(* pass are carried in base-256 digits.                                    *)
(***************************************************************************)
EXTENDS Integers, Sequences, FiniteSets, TLC

\* ------------------------------------------------------------ constants
BLOCKIO_DEFAULT_SECTORSIZE == 512
BLOCKIO_MBR_SIGNATURE == 43605
RESERVED_SECTORS == 1
INT32_MAX == 2147483647
INT32_MIN == (-INT32_MAX) - 1

\* ( 1024 * 1024 / BLOCKIO_DEFAULT_SECTORSIZE ), the factor of lines 242, 298
SectorsPerMB == (1024 * 1024) \div BLOCKIO_DEFAULT_SECTORSIZE

\* layout of blockio_mbr_t / blockio_mbr_partinfo_t
BootCodeLen == 446
PartInfoLen == 16
TypeOffset == 4
StartOffset == 8
SectorsOffset == 12
SignatureOffset == BootCodeLen + 4 * PartInfoLen

\* ------------------------------------------------- 32-bit arithmetic
\* a + b modulo 2^32; no intermediate value leaves the int32 range
AddW(a, b) ==
    IF a >= 0 /\ b > INT32_MAX - a
    THEN (((a - INT32_MAX) - 1) + b) - INT32_MAX - 1
    ELSE IF a < 0 /\ b < INT32_MIN - a
         THEN (((a + INT32_MAX) + 1) + b) + INT32_MAX + 1
         ELSE a + b

\* the signed subtraction a - b overflows int32
SubOverflows(a, b) ==
    \/ b < 0 /\ a > INT32_MAX + b
    \/ b > 0 /\ a < INT32_MIN + b

\* a - b modulo 2^32
SubW(a, b) ==
    IF b < 0 /\ a > INT32_MAX + b
    THEN (((a - INT32_MAX) - 1) - b) - INT32_MAX - 1
    ELSE IF b > 0 /\ a < INT32_MIN + b
         THEN (((a + INT32_MAX) + 1) - b) + INT32_MAX + 1
         ELSE a - b

\* -a modulo 2^32 (INT32_MIN is its own negation)
NegW(a) == SubW(0, a)

\* the signed product v * k overflows int32 (v > 0, k > 0)
MulOverflows(v, k) == v > INT32_MAX \div k

\* v * k modulo 2^32, for v >= 0 and k a power of two
MulW(v, k) ==
    LET m == 2 * ((INT32_MAX \div k) + 1)
        r == v % m
    IN  IF r < m \div 2 THEN r * k ELSE (r - m) * k

\* unsigned comparison of two bit patterns
ULe(a, b) == IF (a >= 0) = (b >= 0) THEN a <= b ELSE a >= 0
ULt(a, b) == a # b /\ ULe(a, b)

\* C integer division, truncating toward zero (d > 0)
TruncDiv(a, d) == IF a >= 0 THEN a \div d ELSE (a + (d - 1)) \div d

\* ----------------------------------------------------- little endian
\* byte k (0 = least significant) of a 32-bit pattern
ByteOf(x, k) == (x \div (256 ^ k)) % 256

\* the 32-bit pattern of four little-endian bytes
Little32(b0, b1, b2, b3) ==
    b0 + 256 * b1 + 65536 * b2 + 16777216 * (IF b3 >= 128 THEN b3 - 256 ELSE b3)

\* write_little32to16( dst, value ): buf with value stored at off..off+3
write_little32to16(buf, off, value) ==
    [buf EXCEPT ![off] = ByteOf(value, 0), ![off + 1] = ByteOf(value, 1),
                ![off + 2] = ByteOf(value, 2), ![off + 3] = ByteOf(value, 3)]

\* write_little16to16( dst, value ): buf with value stored at off..off+1
write_little16to16(buf, off, value) ==
    [buf EXCEPT ![off] = ByteOf(value, 0), ![off + 1] = ByteOf(value, 1)]

\* read_little32from16( src )
read_little32from16(buf, off) ==
    Little32(buf[off], buf[off + 1], buf[off + 2], buf[off + 3])

\* read_little16from16( src )
read_little16from16(buf, off) == buf[off] + 256 * buf[off + 1]

\* mutant: the boot code area is taken to be 440 bytes long
PartOffset_ShortBootCode(i) == (BootCodeLen - 6) + PartInfoLen * i

\* offset of partition[i] (i = 0..3) in the sector
PartOffset(i) == BootCodeLen + PartInfoLen * i

\* ------------------------------------- 64-bit product and quotient
\* the four base-256 digits of a 32-bit pattern read as unsigned
Digits4(x) == [k \in 0..3 |-> ByteOf(x, k)]

\* the term a[i] * b[k - i] of column k, when b has a digit k - i
ProdTerm(a, b, k, i) == IF k - i >= 0 /\ k - i <= 3 THEN a[i] * b[k - i] ELSE 0

\* column k of the schoolbook product of two 4-digit numbers
ProdColumn(a, b, k) ==
    ProdTerm(a, b, k, 0) + ProdTerm(a, b, k, 1) + ProdTerm(a, b, k, 2)
        + ProdTerm(a, b, k, 3)

RECURSIVE ProdCarry(_, _, _)
\* carry into column k
ProdCarry(a, b, k) ==
    IF k = 0 THEN 0
    ELSE (ProdColumn(a, b, k - 1) + ProdCarry(a, b, k - 1)) \div 256

\* the eight base-256 digits of the 64-bit product a * b
Product64(a, b) ==
    [k \in 0..7 |-> (ProdColumn(a, b, k) + ProdCarry(a, b, k)) % 256]

RECURSIVE DivRem(_, _, _)
\* remainder carried into digit k by the short division of p by d
DivRem(p, d, k) ==
    IF k = 7 THEN 0 ELSE (DivRem(p, d, k + 1) * 256 + p[k + 1]) % d

\* digit k of the quotient p / d
QuotDigit(p, d, k) == (DivRem(p, d, k) * 256 + p[k]) \div d

\* the low 32 bits of p / d, for an 8-digit p and 0 < d < 2^23
QuotientLow32(p, d) ==
    Little32(QuotDigit(p, d, 0), QuotDigit(p, d, 1), QuotDigit(p, d, 2),
             QuotDigit(p, d, 3))

\* ( ( (int64_t)sectorstodivide ) * size / relativetotal ) & 0xFFFFFFFF,
\* converted to int32_t, for size < 0 <= sectorstodivide and relativetotal > 0:
\* the quotient is -floor(sectorstodivide * |size| / relativetotal).
\* (A value is bound as the element of a singleton so that it is computed once.)
MaskedQuotient(sectorstodivide, sz, relativetotal) ==
    CHOOSE q \in
        { NegW(QuotientLow32(p, relativetotal)) :
            p \in { Product64(a, b) : a \in {Digits4(sectorstodivide)},
                                      b \in {Digits4(NegW(sz))} } } : TRUE

\* ------------------------------------------------ sizing (lines 228-268)
\* One iteration of "reserve absoluut sizes", lines 240-248, on the sizing
\* state st = [size, sectorsleft, relativetotal, ub]; ub records a signed
\* overflow.
ReserveStep(st, i) ==
    IF st.size[i] > 0
    THEN [st EXCEPT !.size[i] = MulW(st.size[i], SectorsPerMB),
                    !.sectorsleft = SubW(@, MulW(st.size[i], SectorsPerMB)),
                    !.ub = @ \/ MulOverflows(st.size[i], SectorsPerMB)
                             \/ SubOverflows(st.sectorsleft,
                                             MulW(st.size[i], SectorsPerMB))]
    ELSE [st EXCEPT !.relativetotal = SubW(@, st.size[i]),
                    !.ub = @ \/ SubOverflows(st.relativetotal, st.size[i])]

RECURSIVE ReserveAbsolute(_, _)
\* the loop of lines 238-249 from index i on
ReserveAbsolute(st, i) ==
    IF i = 4 THEN st
    ELSE CHOOSE r \in { ReserveAbsolute(n, i + 1) : n \in {ReserveStep(st, i)} } : TRUE

\* the disk full test of line 251
DiskFull(st) ==
    st.sectorsleft < 0 \/ (st.sectorsleft = 0 /\ st.relativetotal # 0)

\* the masked quotient of line 265 for slot i.  A division by
\* relativetotal = 0 is undefined: dz is the value the build leaves.
RelativeQuotient(st, sectorstodivide, dz, i) ==
    IF st.relativetotal = 0 THEN dz
    ELSE MaskedQuotient(sectorstodivide, st.size[i], st.relativetotal)

\* lines 265-266 with the masked quotient q: size[i] = -q; sectorsleft -= size[i]
StoreShare(st, i, q) ==
    [st EXCEPT !.size[i] = NegW(q),
               !.sectorsleft = SubW(@, NegW(q)),
               !.ub = @ \/ st.relativetotal = 0 \/ q = INT32_MIN
                        \/ SubOverflows(st.sectorsleft, NegW(q))]

\* mutant: each share is taken from what the earlier shares left
DivideStep_Renormalised(st, sectorstodivide, dz, i) ==
    IF st.size[i] < 0
    THEN CHOOSE n \in { StoreShare(st, i, q) :
                          q \in {RelativeQuotient(st, st.sectorsleft, dz, i)} } : TRUE
    ELSE st

\* one iteration of "divide relative sizes", lines 263-267
DivideStep(st, sectorstodivide, dz, i) ==
    IF st.size[i] < 0
    THEN CHOOSE n \in { StoreShare(st, i, q) :
                          q \in {RelativeQuotient(st, sectorstodivide, dz, i)} } : TRUE
    ELSE st

RECURSIVE DivideRelative(_, _, _, _)
\* the loop of lines 261-268 from index i on
DivideRelative(st, sectorstodivide, dz, i) ==
    IF i = 4 THEN st
    ELSE CHOOSE r \in { DivideRelative(n, sectorstodivide, dz, i + 1) :
                          n \in {DivideStep(st, sectorstodivide, dz, i)} } : TRUE

\* sizing state at line 228: sectorsleft = cfg.blktotal - RESERVED_SECTORS
SizingStart(size, blktotal) ==
    [size |-> size, sectorsleft |-> SubW(blktotal, RESERVED_SECTORS),
     relativetotal |-> 0, ub |-> FALSE]

\* the sizing state after both passes (only used when not DiskFull)
Sizing(size, blktotal, dz) ==
    CHOOSE r \in { DivideRelative(a, a.sectorsleft, dz, 0) :
                     a \in {ReserveAbsolute(SizingStart(size, blktotal), 0)} } : TRUE


\* ------------------------------------------------------ device model
\* The block device: cfg is what DEVCTL_BLOCKIO_CFG returns, impl what
\* DEVCTL_BLOCKIO_IMPL returns (sanity_check is "none" for a NULL pointer),
\* disk maps the LBAs that impl.read_sectors/impl.write_sectors are called
\* with to the 512-byte sector stored there.  call is the last call made,
\* with its arguments, its results and the device calls it issued.
\* written is the sector image of the last blockio_write_partitiontable
\* whose write_sectors call returned 1, nops the number of calls made.
\* patcher holds, for every blockio_write_partitiontype invocation that runs
\* concurrently with another one, its arguments, its position, its sector
\* buffer and its return value; it is empty while calls are made one at a
\* time.
VARIABLES cfg, impl, disk, call, written, nops, patcher

vars == <<cfg, impl, disk, call, written, nops, patcher>>

\* no concurrent invocations
NoPatchers == <<>>

SectorBytes == 0..(BLOCKIO_DEFAULT_SECTORSIZE - 1)
ZeroSector == [j \in SectorBytes |-> 0]

\* return values of impl.read_sectors / impl.write_sectors: 1 sector done,
\* none done, failure
IoReturns == {1, 0, -1}

\* outcomes of the two posix_devctl queries that open every operation
DevctlOutcomes == {"ok", "impl_fails", "cfg_fails"}

\* implementations of the optional impl.sanity_check
SanityKinds == {"none", "accept", "reject", "within"}

\* impl.sanity_check( impl.device, start, count, total )
SanityCheck(kind, start, count, total) ==
    CASE kind = "accept" -> TRUE
      [] kind = "reject" -> FALSE
      [] kind = "within" -> ULe(count, total) /\ start # 0

\* one entry of the log of device calls; count is the number of sectors the
\* call asks for, the literal 1 of lines 293, 334, 341 and 400
IoEvent(fn, lba, ret) ==
    [fn |-> fn, lba |-> lba,
     count |-> IF fn \in {"read_sectors", "write_sectors"} THEN 1 ELSE 0,
     ret |-> ret]
DevctlImpl == IoEvent("DEVCTL_BLOCKIO_IMPL", 0, 0)
DevctlCfg == IoEvent("DEVCTL_BLOCKIO_CFG", 0, 0)

\* the queries of lines 218-226, 324-332, 389-397 as issued under outcome dc
\* (a query that failed is logged with ret = -1)
DevctlLog(dc) ==
    CASE dc = "impl_fails" -> <<IoEvent("DEVCTL_BLOCKIO_IMPL", 0, -1)>>
      [] dc = "cfg_fails" -> <<DevctlImpl, IoEvent("DEVCTL_BLOCKIO_CFG", 0, -1)>>
      [] OTHER -> <<DevctlImpl, DevctlCfg>>

NoSize == [i \in 0..3 |-> 0]

\* a call record
Call(op, nr, type, ptrs, size, out, sectorsleft, err, val, blkstart, blkcount, io, oob) ==
    [op |-> op, nr |-> nr, type |-> type, ptrs |-> ptrs, size |-> size,
     out |-> out, sectorsleft |-> sectorsleft, err |-> err, val |-> val,
     blkstart |-> blkstart, blkcount |-> blkcount, io |-> io, oob |-> oob]

NoCall == Call("none", 0, 0, FALSE, NoSize, NoSize, 0, "OK", 0, 0, 0, <<>>, FALSE)

\* ------------------------------------ blockio_write_partitiontable
\* lines 281-286 for slot i: the buffer after the two stores
FillEntry(buf, size, start, i) ==
    IF size[i] # 0
    THEN write_little32to16(
             write_little32to16(buf, PartOffset(i) + StartOffset, start),
             PartOffset(i) + SectorsOffset, size[i])
    ELSE buf

\* mutant: the running start is not advanced
NextStart_NotAdvanced(size, start, i) == start

\* lines 281-286 for slot i: the running start after start += size[i]
NextStart(size, start, i) == IF size[i] # 0 THEN AddW(start, size[i]) ELSE start

RECURSIVE FillTable(_, _, _, _)
\* "write values into table": the loop of lines 274-287 from index i on
FillTable(buf, size, start, i) ==
    IF i = 4 THEN buf
    ELSE CHOOSE r \in { FillTable(b, size, n, i + 1) :
                          b \in {FillEntry(buf, size, start, i)},
                          n \in {NextStart(size, start, i)} } : TRUE

\* mutant: the buffer is not cleared and still holds stale bytes
BuildTable_NoMemset(size, blkstart) ==
    write_little16to16(
        FillTable([j \in SectorBytes |-> 229], size, AddW(blkstart, RESERVED_SECTORS), 0),
        SignatureOffset, BLOCKIO_MBR_SIGNATURE)

\* the sector built by lines 271-291 from the resolved sizes
BuildTable(size, blkstart) ==
    write_little16to16(
        FillTable(ZeroSector, size, AddW(blkstart, RESERVED_SECTORS), 0),
        SignatureOffset, BLOCKIO_MBR_SIGNATURE)

\* whether the relative pass divides by relativetotal = 0: a slot that the
\* absolute pass wrapped negative while no slot was given as relative
DividesByZero(a) == a.relativetotal = 0 /\ \E i \in 0..3 : a.size[i] < 0

\* a return of blockio_write_partitiontable before its write_sectors call
EarlyReturn(err, out, ub) ==
    [wrote |-> FALSE, err |-> err, out |-> out, sectorsleft |-> 0,
     buf |-> ZeroSector, ub |-> ub]

\* lines 251-291 on the sizing state a left by the absolute pass
SizedRun(c, a, dz) ==
    IF DiskFull(a) THEN EarlyReturn("BLOCKIO_ERROR_FDISK_DISKFULL", a.size, a.ub)
    ELSE CHOOSE run \in
            { [wrote |-> TRUE, err |-> "OK", out |-> r.size,
               sectorsleft |-> r.sectorsleft,
               buf |-> BuildTable(r.size, c.blkstart), ub |-> r.ub] :
                r \in {DivideRelative(a, a.sectorsleft, dz, 0)} } : TRUE

\* mutant: the block size is tested after the absolute pass and the disk
\* full test
WriterRun_SizesFirst(c, size, dc, dz) ==
    IF dc # "ok" THEN EarlyReturn("BLOCKIO_ERROR_IO", size, FALSE)
    ELSE CHOOSE run \in
            { IF DiskFull(a) \/ c.blksize = BLOCKIO_DEFAULT_SECTORSIZE
              THEN SizedRun(c, a, dz)
              ELSE EarlyReturn("BLOCKIO_ERROR_BLOCKSIZE_UNSUPPORTED", a.size, a.ub) :
                a \in {ReserveAbsolute(SizingStart(size, c.blktotal), 0)} } : TRUE

\* One run of blockio_write_partitiontable( fd, size ) on configuration c up
\* to its write_sectors call: dc is the outcome of the devctl queries, dz the
\* masked quotient a division by zero leaves.
\* Result: wrote whether write_sectors is called, err the error returned
\* before it, out the caller's array on return, sectorsleft the final value
\* of the local, buf the sector handed to write_sectors, ub whether the run
\* met undefined behaviour.
WriterRun(c, size, dc, dz) ==
    IF dc # "ok" THEN EarlyReturn("BLOCKIO_ERROR_IO", size, FALSE)
    ELSE IF c.blksize # BLOCKIO_DEFAULT_SECTORSIZE
         THEN EarlyReturn("BLOCKIO_ERROR_BLOCKSIZE_UNSUPPORTED", size, FALSE)
    ELSE CHOOSE run \in { SizedRun(c, a, dz) :
                            a \in {ReserveAbsolute(SizingStart(size, c.blktotal), 0)} } : TRUE

\* the sector at lba after write_sectors( buf, lba, 1 ) returned wr: written
\* when it returned 1, untouched when it returned 0, and either when it failed
AfterWrite(d, lba, buf, wr, landed) ==
    IF wr = 1 \/ (wr = -1 /\ landed) THEN [d EXCEPT ![lba] = buf] ELSE d

\* masked quotients a division by zero may leave
DivZeroQuotients == {0, -1}

\* the return value of line 298
LeftoverMB(sectorsleft) == TruncDiv(sectorsleft, SectorsPerMB)

\* blockio_write_partitiontable( fd, size ).  A run that met undefined
\* behaviour either went on with wrapped arithmetic or trapped.
WriteTable(size) ==
    \E dc \in DevctlOutcomes :
    \E dz \in IF dc = "ok" /\ DividesByZero(ReserveAbsolute(SizingStart(size, cfg.blktotal), 0))
              THEN DivZeroQuotients ELSE {0} :
        \E r \in {WriterRun(cfg, size, dc, dz)} :
            \E trap \in IF r.ub THEN BOOLEAN ELSE {FALSE} :
            \E wr \in IF r.wrote /\ ~trap THEN IoReturns ELSE {1} :
            \E landed \in IF r.wrote /\ ~trap /\ wr = -1 THEN BOOLEAN ELSE {FALSE} :
                /\ IF trap
                   THEN /\ disk' = disk
                        /\ written' = written
                        /\ call' = Call("write_partitiontable", 0, 0, FALSE, size,
                                        r.out, 0, "TRAP", 0, 0, 0, DevctlLog(dc), FALSE)
                   ELSE IF r.wrote
                   THEN /\ disk' = AfterWrite(disk, 0, r.buf, wr, landed)
                        /\ written' = [valid |-> wr = 1, sector |-> r.buf]
                        /\ call' = Call("write_partitiontable", 0, 0, FALSE, size,
                                        r.out, r.sectorsleft,
                                        IF wr = 1 THEN "OK" ELSE "BLOCKIO_ERROR_IO",
                                        IF wr = 1 THEN LeftoverMB(r.sectorsleft) ELSE 0,
                                        0, 0,
                                        DevctlLog(dc) \o <<IoEvent("write_sectors", 0, wr)>>,
                                        FALSE)
                   ELSE /\ disk' = disk
                        /\ written' = written
                        /\ call' = Call("write_partitiontable", 0, 0, FALSE, size,
                                        r.out, 0, r.err, 0, 0, 0, DevctlLog(dc), FALSE)
                /\ UNCHANGED <<cfg, impl>>

\* ------------------------------------- blockio_write_partitiontype
\* offset in the sector buffer of mbr->partition[nr - 1].type
TypeByteOffset(nr) == PartOffset(nr - 1) + TypeOffset

\* mutant: the store also clears the state byte of the entry
PatchType_ClearsState(buf, nr, type) ==
    IF TypeByteOffset(nr) \in SectorBytes
    THEN [buf EXCEPT ![TypeByteOffset(nr)] = type % 256, ![TypeByteOffset(nr) - TypeOffset] = 0]
    ELSE buf

\* line 339: mbr->partition[nr - 1].type = type & 0xFF.  For nr outside 1..4
\* the store is outside the partition array: it still lands in the sector
\* buffer when the offset is inside it, and outside the buffer otherwise.
PatchType(buf, nr, type) ==
    IF TypeByteOffset(nr) \in SectorBytes
    THEN [buf EXCEPT ![TypeByteOffset(nr)] = type % 256]
    ELSE buf

\* the store of line 339 lands outside the 512-byte buffer
PatchOutOfBuffer(nr) == TypeByteOffset(nr) \notin SectorBytes

\* mutant: a read_sectors that returned 0 sectors is not taken as a failure
WriteType_ShortReadGoesOn(nr, type) ==
    \E dc \in DevctlOutcomes :
    \E rd \in IF dc = "ok" THEN IoReturns ELSE {1} :
    \E trap \in IF dc = "ok" /\ rd >= 0 /\ PatchOutOfBuffer(nr) THEN BOOLEAN ELSE {FALSE} :
    \E wr \in IF dc = "ok" /\ rd >= 0 /\ ~trap THEN IoReturns ELSE {1} :
    \E landed \in IF dc = "ok" /\ rd >= 0 /\ ~trap /\ wr = -1 THEN BOOLEAN ELSE {FALSE} :
        LET Ret(err, io, oob) ==
                Call("write_partitiontype", nr, type, FALSE, NoSize, NoSize, 0,
                     err, 0, 0, 0, io, oob)
            rdLog == DevctlLog(dc) \o <<IoEvent("read_sectors", cfg.blkstart, rd)>>
            buf == PatchType(disk[cfg.blkstart], nr, type)
        IN  /\ IF dc # "ok"
               THEN /\ disk' = disk
                    /\ call' = Ret("BLOCKIO_ERROR_IO", DevctlLog(dc), FALSE)
               ELSE IF rd < 0
               THEN /\ disk' = disk
                    /\ call' = Ret("BLOCKIO_ERROR_IO", rdLog, FALSE)
               ELSE IF trap
               THEN /\ disk' = disk
                    /\ call' = Ret("TRAP", rdLog, TRUE)
               ELSE /\ disk' = AfterWrite(disk, cfg.blkstart, buf, wr, landed)
                    /\ call' = Ret(IF wr = 1 THEN "OK" ELSE "BLOCKIO_ERROR_IO",
                                   rdLog \o <<IoEvent("write_sectors", cfg.blkstart, wr)>>,
                                   PatchOutOfBuffer(nr))
            /\ UNCHANGED <<cfg, impl, written>>

\* blockio_write_partitiontype( fd, nr, type ).  rd and wr are the values
\* read_sectors and write_sectors return.  A store outside the buffer is
\* undefined: the run goes on with the buffer as read, or traps.
WriteType(nr, type) ==
    \E dc \in DevctlOutcomes :
    \E rd \in IF dc = "ok" THEN IoReturns ELSE {1} :
    \E trap \in IF dc = "ok" /\ rd = 1 /\ PatchOutOfBuffer(nr) THEN BOOLEAN ELSE {FALSE} :
    \E wr \in IF dc = "ok" /\ rd = 1 /\ ~trap THEN IoReturns ELSE {1} :
    \E landed \in IF dc = "ok" /\ rd = 1 /\ ~trap /\ wr = -1 THEN BOOLEAN ELSE {FALSE} :
        LET Ret(err, io, oob) ==
                Call("write_partitiontype", nr, type, FALSE, NoSize, NoSize, 0,
                     err, 0, 0, 0, io, oob)
            rdLog == DevctlLog(dc) \o <<IoEvent("read_sectors", cfg.blkstart, rd)>>
            buf == PatchType(disk[cfg.blkstart], nr, type)
        IN  /\ IF dc # "ok"
               THEN /\ disk' = disk
                    /\ call' = Ret("BLOCKIO_ERROR_IO", DevctlLog(dc), FALSE)
               ELSE IF rd # 1
               THEN /\ disk' = disk
                    /\ call' = Ret("BLOCKIO_ERROR_IO", rdLog, FALSE)
               ELSE IF trap
               THEN /\ disk' = disk
                    /\ call' = Ret("TRAP", rdLog, TRUE)
               ELSE /\ disk' = AfterWrite(disk, cfg.blkstart, buf, wr, landed)
                    /\ call' = Ret(IF wr = 1 THEN "OK" ELSE "BLOCKIO_ERROR_IO",
                                   rdLog \o <<IoEvent("write_sectors", cfg.blkstart, wr)>>,
                                   PatchOutOfBuffer(nr))
            /\ UNCHANGED <<cfg, impl, written>>

\* --------------------------------------- blockio_select_partition
\* mutant: the end of the extent is computed with a wrapping addition
BoundsViolated_Wrapping(blkstart, blkcount, blktotal) ==
    ULt(blktotal, blkstart) \/ ULt(blktotal, AddW(blkstart, blkcount))

\* the built-in check of line 436 rejects the extent
BoundsViolated(blkstart, blkcount, blktotal) ==
    ULt(blktotal, blkstart) \/ ULt(SubW(blktotal, blkstart), blkcount)

\* mutant: the built-in check is applied in addition to sanity_check
ExtentAccepted_Both(sanity, blkstart, blkcount, blktotal) ==
    /\ sanity # "none" => SanityCheck(sanity, blkstart, blkcount, blktotal)
    /\ ~BoundsViolated(blkstart, blkcount, blktotal)

\* "basic sanity checks", lines 425-441: TRUE when the extent is accepted
ExtentAccepted(sanity, blkstart, blkcount, blktotal) ==
    IF sanity # "none"
    THEN SanityCheck(sanity, blkstart, blkcount, blktotal)
    ELSE ~BoundsViolated(blkstart, blkcount, blktotal)

\* mutant: only the low byte of the signature is compared
SignatureOk_LowByte(buf) == buf[SignatureOffset] = BLOCKIO_MBR_SIGNATURE % 256

\* "verify magic value", line 406
SignatureOk(buf) == read_little16from16(buf, SignatureOffset) = BLOCKIO_MBR_SIGNATURE

\* mutant: a flag left set by a successful call makes the next call fail
SelectFromSector_Latched(buf, nr, sanity, blktotal) ==
    LET start == read_little32from16(buf, PartOffset(nr - 1) + StartOffset)
        count == read_little32from16(buf, PartOffset(nr - 1) + SectorsOffset)
    IN  IF ~SignatureOk(buf)
        THEN [err |-> "BLOCKIO_ERROR_WRONG_MBR_SIGNATURE", val |-> 0,
              blkstart |-> 0, blkcount |-> 0]
        ELSE IF \/ ~ExtentAccepted(sanity, start, count, blktotal)
                \/ (call.op = "select_partition" /\ call.err = "OK")
        THEN [err |-> "BLOCKIO_ERROR_IO", val |-> 0, blkstart |-> 0, blkcount |-> 0]
        ELSE [err |-> "OK", val |-> buf[PartOffset(nr - 1) + TypeOffset],
              blkstart |-> start, blkcount |-> count]

\* lines 405-443 on the sector buf that read_sectors delivered: the return
\* value (err, val) and the values left in *blkstart and *blkcount
SelectFromSector(buf, nr, sanity, blktotal) ==
    LET start == read_little32from16(buf, PartOffset(nr - 1) + StartOffset)
        count == read_little32from16(buf, PartOffset(nr - 1) + SectorsOffset)
    IN  IF ~SignatureOk(buf)
        THEN [err |-> "BLOCKIO_ERROR_WRONG_MBR_SIGNATURE", val |-> 0,
              blkstart |-> 0, blkcount |-> 0]
        ELSE IF ~ExtentAccepted(sanity, start, count, blktotal)
        THEN [err |-> "BLOCKIO_ERROR_IO", val |-> 0, blkstart |-> 0, blkcount |-> 0]
        ELSE [err |-> "OK", val |-> buf[PartOffset(nr - 1) + TypeOffset],
              blkstart |-> start, blkcount |-> count]

\* whether line 384 lets the partition number pass
NrInRange(nr) == ~(nr < 1 \/ nr > 4)

\* mutant: the partition number is tested after the devctl queries
SelectLog_RangeAfterDevctl(nr, ptrs, dc, rd, lba) ==
    IF ~ptrs THEN <<>>
    ELSE IF dc # "ok" \/ ~NrInRange(nr) THEN DevctlLog(dc)
    ELSE DevctlLog(dc) \o <<IoEvent("read_sectors", lba, rd)>>

\* mutant: a read_sectors call that did not return 1 is made once more
SelectLog_ReadsAgain(nr, ptrs, dc, rd, lba) ==
    IF ~ptrs \/ ~NrInRange(nr) THEN <<>>
    ELSE IF dc # "ok" THEN DevctlLog(dc)
    ELSE IF rd # 1
    THEN DevctlLog(dc) \o <<IoEvent("read_sectors", lba, rd), IoEvent("read_sectors", lba, rd)>>
    ELSE DevctlLog(dc) \o <<IoEvent("read_sectors", lba, rd)>>

\* the device calls blockio_select_partition issues for nr under devctl
\* outcome dc and read_sectors result rd
SelectLog(nr, ptrs, dc, rd, lba) ==
    IF ~ptrs \/ ~NrInRange(nr) THEN <<>>
    ELSE IF dc # "ok" THEN DevctlLog(dc)
    ELSE DevctlLog(dc) \o <<IoEvent("read_sectors", lba, rd)>>

\* blockio_select_partition( fd, nr, blkstart, blkcount ); ptrs is FALSE
\* when blkstart or blkcount is NULL
Select(nr, ptrs) ==
    \E dc \in IF ptrs /\ NrInRange(nr) THEN DevctlOutcomes ELSE {"ok"} :
    \E rd \in IF ptrs /\ NrInRange(nr) /\ dc = "ok" THEN IoReturns ELSE {1} :
        LET io == SelectLog(nr, ptrs, dc, rd, cfg.blkstart)
            Ret(err, val, start, count) ==
                Call("select_partition", nr, 0, ptrs, NoSize, NoSize, 0,
                     err, val, start, count, io, FALSE)
            r == SelectFromSector(disk[cfg.blkstart], nr, impl.sanity_check,
                                  cfg.blktotal)
        IN  /\ call' = IF ~ptrs \/ ~NrInRange(nr) \/ dc # "ok" \/ rd # 1
                       THEN Ret("BLOCKIO_ERROR_IO", 0, 0, 0)
                       ELSE Ret(r.err, r.val, r.blkstart, r.blkcount)
            /\ UNCHANGED <<cfg, impl, disk, written>>


\* ------------------------------------------------------------ inputs
\* calls per behaviour
MaxOps == 2
\* largest absolute size (MB) and largest relative weight of a size
\* specification of the sizing specification
MaxMB == 2
MaxWeight == 2

Size4(a, b, c, d) == [i \in 0..3 |-> CASE i = 0 -> a [] i = 1 -> b [] i = 2 -> c [] i = 3 -> d]

Config(blksize, blktotal, blkstart) ==
    [blksize |-> blksize, blktotal |-> blktotal, blkstart |-> blkstart]

\* devices of the protocol specification: a 2 MB + 3 sector disk at LBA 0,
\* the same layered at LBA 8, and one with a sanity_check of its own
Devices ==
    { [cfg |-> Config(512, 4100, 0), sanity_check |-> "none"],
      [cfg |-> Config(512, 4100, 8), sanity_check |-> "none"],
      [cfg |-> Config(512, 4100, 0), sanity_check |-> "within"] }

\* a sector some other tool left: boot code, four used entries, signature.
\* Entry 0 fills the device exactly, entry 1 is empty at the very end,
\* entry 2 is one sector too long, entry 3 is so long that start + count
\* wraps around 2^32.
ForeignEntry(buf, i, type, start, count) ==
    write_little32to16(
        write_little32to16([buf EXCEPT ![PartOffset(i)] = 128,
                                       ![PartOffset(i) + TypeOffset] = type],
                           PartOffset(i) + StartOffset, start),
        PartOffset(i) + SectorsOffset, count)

ForeignSector(blktotal) ==
    write_little16to16(
        ForeignEntry(
            ForeignEntry(
                ForeignEntry(
                    ForeignEntry(
                        [j \in SectorBytes |->
                            IF j < BootCodeLen THEN (7 * j + 1) % 256 ELSE 0],
                        0, 11, 1, SubW(blktotal, 1)),
                    1, 131, blktotal, 0),
                2, 7, 2, SubW(blktotal, 1)),
            3, 5, 16, -8),
        SignatureOffset, BLOCKIO_MBR_SIGNATURE)

\* the same with the high signature byte cleared
HalfSignedSector(blktotal) ==
    [ForeignSector(blktotal) EXCEPT ![SignatureOffset + 1] = 0]

\* the table an earlier blockio_write_partitiontable( fd, { 1, -1, -2, 0 } )
\* left on the device
EarlierTable(c) == BuildTable(Sizing(Size4(1, -1, -2, 0), c.blktotal, 0).size, c.blkstart)

\* what the sector at the device's base LBA may hold at the start
BaseSectors(c) ==
    {ZeroSector, ForeignSector(c.blktotal), HalfSignedSector(c.blktotal)}

\* the disks a device may start with: the base LBA holds any base sector or
\* the table of an earlier blockio_write_partitiontable; when LBA 0 is not
\* the base LBA it holds that earlier table
InitDisks(c) ==
    { d \in [{0, c.blkstart} -> BaseSectors(c) \cup {EarlierTable(c)}] :
        c.blkstart # 0 => d[0] = EarlierTable(c) }

ProtocolSizes ==
    { Size4(0, 0, 0, 0), Size4(1, -1, -2, 0), Size4(2, 1, 0, 0),
      Size4(1572864, -1, 0, 0) }

NrValues == (-1)..5
TypeBytes == {131}

Init ==
    /\ \E d \in Devices :
        /\ cfg = d.cfg
        /\ impl = [sanity_check |-> d.sanity_check]
        /\ disk \in InitDisks(d.cfg)
        /\ written = [valid |-> disk[0] = EarlierTable(d.cfg),
                      sector |-> IF disk[0] = EarlierTable(d.cfg)
                                 THEN EarlierTable(d.cfg) ELSE ZeroSector]
    /\ call = NoCall
    /\ nops = 0
    /\ patcher = NoPatchers

\* one more call, while the behaviour may go on
Tick == nops < MaxOps /\ nops' = nops + 1

Next ==
    \/ \E size \in ProtocolSizes : Tick /\ WriteTable(size) /\ UNCHANGED patcher
    \/ \E nr \in NrValues, type \in TypeBytes :
          Tick /\ WriteType(nr, type) /\ UNCHANGED patcher
    \/ \E nr \in NrValues, ptrs \in BOOLEAN :
          Tick /\ Select(nr, ptrs) /\ UNCHANGED patcher

Spec == Init /\ [][Next]_vars

\* ------------------------------------------- sizing specification
\* blockio_write_partitiontable applied once to every size specification of
\* SizeSpecs on every configuration of SizingConfigs.
\* WrappingMB: sizes in MB whose sector count does not fit int32_t
\* (2^20 MB -> 2^31, 1.5 * 2^20 MB -> 3 * 2^30, 2^21 MB -> 2^32 sectors).
WrappingMB == {1048576, 1572864, 2097152}
SizeValues == ((-MaxWeight)..MaxMB) \cup WrappingMB

\* the size specifications over SizeValues with at most one wrapping slot
SizeSpecs ==
    { s \in [0..3 -> SizeValues] :
        \A i, k \in 0..3 : s[i] \in WrappingMB /\ s[k] \in WrappingMB => i = k }

\* 1 MB + 1 sector, 2 MB + 4 sectors layered at LBA 8, 2^31 + 3 sectors,
\* and a device with 1024-byte sectors
SizingConfigs ==
    { Config(512, 2049, 0), Config(512, 4100, 8), Config(512, INT32_MIN + 3, 0),
      Config(1024, 4100, 0) }

InitSizing ==
    /\ cfg \in SizingConfigs
    /\ impl = [sanity_check |-> "none"]
    /\ disk = [l \in {0, cfg.blkstart} |-> ZeroSector]
    /\ written = [valid |-> FALSE, sector |-> ZeroSector]
    /\ call = NoCall
    /\ nops = 0
    /\ patcher = NoPatchers

NextSizing ==
    \E size \in SizeSpecs :
        nops = 0 /\ nops' = 1 /\ WriteTable(size) /\ UNCHANGED patcher

SpecSizing == InitSizing /\ [][NextSizing]_vars

\* ----------------------------------------- scenario specification
\* blockio_write_partitiontable applied once, on a 512 MB device, to every
\* size specification made of the values of the documented example
\* { 10, -1, -4, 0 } (lines 188-197)
ScenarioDevice == Config(512, 1048576, 0)
ScenarioSizes == [0..3 -> {10, -1, -4, 0}]

InitScenario ==
    /\ cfg = ScenarioDevice
    /\ impl = [sanity_check |-> "none"]
    /\ disk = [l \in {0, cfg.blkstart} |-> ZeroSector]
    /\ written = [valid |-> FALSE, sector |-> ZeroSector]
    /\ call = NoCall
    /\ nops = 0
    /\ patcher = NoPatchers

NextScenario ==
    \E size \in ScenarioSizes :
        nops = 0 /\ nops' = 1 /\ WriteTable(size) /\ UNCHANGED patcher

SpecScenario == InitScenario /\ [][NextScenario]_vars

\* -------------------------------------------- codec specification
\* The stores and loads the three entry points apply to one entry and to the
\* signature (lines 283-284, 291, 339, 406, 416-417, 443), applied once to a
\* sector of equal bytes for field values drawn from the sets below.
CodecValues == {0, 1, 258, 305419896, INT32_MAX, INT32_MIN, -1, -16777216}
CodecTypes == {0, 131, 255}
CodecSignatures == {BLOCKIO_MBR_SIGNATURE, 21930, 0, 65535}

\* entry i of buf after the stores of lines 283-284 and 339
EncodeEntry(buf, i, type, start, count) ==
    PatchType(
        write_little32to16(
            write_little32to16(buf, PartOffset(i) + StartOffset, start),
            PartOffset(i) + SectorsOffset, count),
        i + 1, type)

\* buf after the store of line 291
EncodeSignature(buf, signature) == write_little16to16(buf, SignatureOffset, signature)

\* the stores applied to the sector at LBA 0; the call record keeps the
\* values stored and written.sector the sector before the stores
Codec(i, type, start, count, signature) ==
    /\ nops = 0 /\ nops' = 1
    /\ disk' = [disk EXCEPT ![0] =
                    EncodeSignature(EncodeEntry(disk[0], i, type, start, count), signature)]
    /\ call' = Call("codec", i + 1, type, FALSE, NoSize, NoSize, 0, "OK",
                    signature, start, count, <<>>, FALSE)
    /\ UNCHANGED <<cfg, impl, written>>

InitCodec ==
    /\ cfg = Config(512, 4100, 0)
    /\ impl = [sanity_check |-> "none"]
    /\ \E fill \in {0, 255} :
          /\ disk = [l \in {0} |-> [j \in SectorBytes |-> fill]]
          /\ written = [valid |-> FALSE, sector |-> [j \in SectorBytes |-> fill]]
    /\ call = NoCall
    /\ nops = 0
    /\ patcher = NoPatchers

NextCodec ==
    \E i \in 0..3, type \in CodecTypes, start \in CodecValues, count \in CodecValues,
       signature \in CodecSignatures :
        Codec(i, type, start, count, signature) /\ UNCHANGED patcher

SpecCodec == InitCodec /\ [][NextCodec]_vars

\* --------------------------------------------- race specification
\* Two invocations of blockio_write_partitiontype( fd, nr, type ) on one
\* device, for different entries, made by two threads with nothing that
\* serializes them.  An invocation takes three steps, one per call into the
\* device: the posix_devctl queries (lines 324-332), read_sectors with the
\* store into the local buffer that follows it (lines 334-339), and
\* write_sectors with the return (lines 341-346).  nops counts the steps
\* taken; rdAt and wrAt are its values when the invocation's read_sectors and
\* write_sectors calls were made (0: not made).
Threads == {1, 2}
RaceTypes == {6, 12}

\* an invocation before its first step
PatcherStart(nr, type) ==
    [nr |-> nr, type |-> type, pc |-> "query", buf32 |-> ZeroSector,
     ret |-> "none", rdAt |-> 0, wrAt |-> 0]

\* the invocation of thread t returns ret
PatcherReturn(t, ret) == [patcher EXCEPT ![t].pc = "done", ![t].ret = ret]

\* lines 324-332 of thread t
PatcherQuery(t) ==
    /\ patcher[t].pc = "query"
    /\ \E dc \in DevctlOutcomes :
          patcher' = IF dc = "ok" THEN [patcher EXCEPT ![t].pc = "read"]
                     ELSE PatcherReturn(t, "BLOCKIO_ERROR_IO")
    /\ nops' = nops + 1
    /\ UNCHANGED <<cfg, impl, disk, call, written>>

\* lines 334-339 of thread t: the sector at cfg.blkstart is read into the
\* buffer and the type byte stored there
PatcherRead(t) ==
    /\ patcher[t].pc = "read"
    /\ \E rd \in IoReturns :
          patcher' = IF rd = 1
                     THEN [patcher EXCEPT
                              ![t].pc = "write",
                              ![t].buf32 = PatchType(disk[cfg.blkstart],
                                                     patcher[t].nr, patcher[t].type),
                              ![t].rdAt = nops + 1]
                     ELSE PatcherReturn(t, "BLOCKIO_ERROR_IO")
    /\ nops' = nops + 1
    /\ UNCHANGED <<cfg, impl, disk, call, written>>

\* mutant: write_sectors stores only the byte that the invocation changed
PatcherWrite_OneByte(t) ==
    /\ patcher[t].pc = "write"
    /\ \E wr \in IoReturns :
       \E landed \in IF wr = -1 THEN BOOLEAN ELSE {FALSE} :
          /\ disk' = AfterWrite(disk, cfg.blkstart,
                                PatchType(disk[cfg.blkstart], patcher[t].nr,
                                          patcher[t].type), wr, landed)
          /\ patcher' = [PatcherReturn(t, IF wr = 1 THEN "OK" ELSE "BLOCKIO_ERROR_IO")
                            EXCEPT ![t].wrAt = nops + 1]
    /\ nops' = nops + 1
    /\ UNCHANGED <<cfg, impl, call, written>>

\* lines 341-346 of thread t: the whole buffer is written to cfg.blkstart
PatcherWrite(t) ==
    /\ patcher[t].pc = "write"
    /\ \E wr \in IoReturns :
       \E landed \in IF wr = -1 THEN BOOLEAN ELSE {FALSE} :
          /\ disk' = AfterWrite(disk, cfg.blkstart, patcher[t].buf32, wr, landed)
          /\ patcher' = [PatcherReturn(t, IF wr = 1 THEN "OK" ELSE "BLOCKIO_ERROR_IO")
                            EXCEPT ![t].wrAt = nops + 1]
    /\ nops' = nops + 1
    /\ UNCHANGED <<cfg, impl, call, written>>

\* the invocations: two entries a # b, a type each
RaceCalls ==
    { p \in [Threads -> { PatcherStart(nr, type) : nr \in 1..4, type \in RaceTypes }] :
        p[1].nr # p[2].nr }

InitRace ==
    /\ \E d \in { e \in Devices : e.sanity_check = "none" } :
        /\ cfg = d.cfg
        /\ impl = [sanity_check |-> d.sanity_check]
        /\ disk \in InitDisks(d.cfg)
    /\ written = [valid |-> FALSE, sector |-> ZeroSector]
    /\ call = NoCall
    /\ nops = 0
    /\ patcher \in RaceCalls

NextRace ==
    \E t \in Threads : PatcherQuery(t) \/ PatcherRead(t) \/ PatcherWrite(t)

SpecRace == InitRace /\ [][NextRace]_vars

\* ======================================================== properties
\* the last call was blockio_write_partitiontable and it returned err
WriterReturned(err) == call.op = "write_partitiontable" /\ call.err = err

\* the last call was a blockio_write_partitiontable that passed the disk
\* full test, i.e. accepted its size specification and called write_sectors
WriterAccepted ==
    /\ call.op = "write_partitiontable"
    /\ call.err # "TRAP"
    /\ Len(call.io) = 3

\* a + b as unsigned 32-bit numbers does not carry out of 32 bits
NoCarry(a, b) == ULe(a, AddW(a, b))

RECURSIVE SumFrom(_, _, _)
\* acc + out[i] + ... + out[3] modulo 2^32
SumFrom(out, acc, i) == IF i = 4 THEN acc ELSE SumFrom(out, AddW(acc, out[i]), i + 1)

RECURSIVE NoCarryFrom(_, _, _)
\* no partial sum of acc + out[i] + ... + out[3] carries out of 32 bits
NoCarryFrom(out, acc, i) ==
    i = 4 \/ (NoCarry(acc, out[i]) /\ NoCarryFrom(out, AddW(acc, out[i]), i + 1))

\* RESERVED_SECTORS + out[0] + ... + out[3] + left = total as natural numbers,
\* the counts and the leftover being numbers of sectors (not negative)
Conserved(out, left, total) ==
    /\ \A i \in 0..3 : out[i] >= 0
    /\ left >= 0
    /\ NoCarryFrom(out, RESERVED_SECTORS, 0)
    /\ NoCarry(SumFrom(out, RESERVED_SECTORS, 0), left)
    /\ AddW(SumFrom(out, RESERVED_SECTORS, 0), left) = total

\* RESERVED_SECTORS + out[0] + ... + out[3] <= total as natural numbers, the
\* counts read as the unsigned numbers stored in the table
WithinTotal(out, total) ==
    /\ NoCarryFrom(out, RESERVED_SECTORS, 0)
    /\ ULe(SumFrom(out, RESERVED_SECTORS, 0), total)

\* C1 (as claimed): whenever blockio_write_partitiontable accepts a size
\* specification, 1 reserved sector + the four resolved counts left in
\* size[0..3] + the final sectorsleft equal cfg.blktotal exactly.
C1_SizingConservation ==
    WriterAccepted => Conserved(call.out, call.sectorsleft, cfg.blktotal)

\* C2 (as claimed): after a successful blockio_write_partitiontable the four
\* resolved counts plus the reserved sector do not exceed cfg.blktotal.
C2_SumWithinBlockTotal ==
    WriterReturned("OK") => WithinTotal(call.out, cfg.blktotal)

\* start_sector / sector_count / type of entry i (0..3) of a sector
EntryStart(buf, i) == read_little32from16(buf, PartOffset(i) + StartOffset)
EntryCount(buf, i) == read_little32from16(buf, PartOffset(i) + SectorsOffset)
EntryType(buf, i) == buf[PartOffset(i) + TypeOffset]

\* base + out[0] + ... + out[i - 1] modulo 2^32
RECURSIVE SumBefore(_, _, _)
SumBefore(out, base, i) ==
    IF i = 0 THEN base ELSE AddW(SumBefore(out, base, i - 1), out[i - 1])

\* in the sector at LBA 0 every slot with a nonzero resolved count starts at
\* first + the resolved counts of the slots before it, and holds its count
PackedFrom(first) ==
    \A i \in 0..3 :
        call.out[i] # 0 =>
            /\ EntryStart(disk[0], i) = SumBefore(call.out, first, i)
            /\ EntryCount(disk[0], i) = call.out[i]

\* C3 (as claimed): in the sector a successful blockio_write_partitiontable
\* wrote, each slot with a nonzero count starts at RESERVED_SECTORS (1) plus
\* the counts of all preceding slots, for every device configuration.
C3_PackedFromSectorOne ==
    WriterReturned("OK") => PackedFrom(RESERVED_SECTORS)

\* C3 (amended): each slot with a nonzero count starts at cfg.blkstart +
\* RESERVED_SECTORS plus the counts of all preceding slots (modulo 2^32);
\* unused slots do not break the packing.
C3_PackedFromBlockStart ==
    WriterReturned("OK") => PackedFrom(AddW(cfg.blkstart, RESERVED_SECTORS))

\* C3 witness: a table written on a device with blkstart # 0 in which an
\* unused slot lies between two used ones
C3_Witness ==
    /\ WriterReturned("OK")
    /\ cfg.blkstart # 0
    /\ call.out[0] # 0 /\ call.out[1] = 0 /\ call.out[2] # 0
    /\ EntryStart(disk[0], 2) = AddW(EntryStart(disk[0], 0), EntryCount(disk[0], 0))

\* the last call was a blockio_select_partition with valid pointers and nr in
\* 1..4 whose read_sectors delivered the sector at cfg.blkstart
SelectRead ==
    /\ call.op = "select_partition"
    /\ call.ptrs
    /\ call.nr \in 1..4
    /\ Len(call.io) = 3
    /\ call.io[3] = IoEvent("read_sectors", cfg.blkstart, 1)

\* the step is a blockio_select_partition( fd, nr, &blkstart, &blkcount )
\* with nr in 1..4 whose devctl queries and read_sectors succeeded
SelectReadStep ==
    /\ nops' = nops + 1
    /\ call'.op = "select_partition"
    /\ call'.ptrs
    /\ call'.nr \in 1..4
    /\ Len(call'.io) = 3
    /\ call'.io[3].ret = 1

\* the call of the step returned type with the extent entry nr - 1 of the
\* sector buf holds
SelectReturned(buf, type) ==
    /\ call'.err = "OK"
    /\ call'.val = type
    /\ call'.blkstart = EntryStart(buf, call'.nr - 1)
    /\ call'.blkcount = EntryCount(buf, call'.nr - 1)

\* the step of C4: a blockio_select_partition for nr in 1..4 that directly
\* follows a successful blockio_write_partitiontable, on a device without
\* sanity_check, finds the signature, passes the bounds check and returns
\* type 0 with the start and count the writer stored for slot nr, whatever
\* cfg.blkstart is.
C4_SelectAfterWriteStep ==
    (/\ WriterReturned("OK")
     /\ impl.sanity_check = "none"
     /\ SelectReadStep)
    => SelectReturned(written.sector, 0)

\* C4 (as claimed), over all steps: every blockio_select_partition that
\* directly follows a successful blockio_write_partitiontable returns type 0
\* and the extent the writer stored for slot nr.
C4_WriterSelectorAgree == [][C4_SelectAfterWriteStep]_vars

\* the step of C5: after a successful blockio_write_partitiontable and then
\* a successful blockio_write_partitiontype( fd, nr, t ) with nr in 1..4,
\* blockio_select_partition( fd, nr ) returns t and the start and count the
\* last blockio_write_partitiontable stored for slot nr.
C5_SelectAfterPatchStep ==
    (/\ written.valid
     /\ call.op = "write_partitiontype"
     /\ call.err = "OK"
     /\ call.nr \in 1..4
     /\ SelectReadStep
     /\ call'.nr = call.nr)
    => SelectReturned(written.sector, call.type)

\* C5 (as claimed), over all steps: every blockio_select_partition( fd, nr )
\* that directly follows a successful blockio_write_partitiontype( fd, nr, t )
\* returns t and the extent of the last written table.
C5_TypePatchThenSelect == [][C5_SelectAfterPatchStep]_vars

\* the step of C6: a successful blockio_write_partitiontype( fd, nr, t ) with
\* nr in 1..4
\* changes, in the sector at cfg.blkstart, only the byte at offset
\* 446 + 16 * (nr - 1) + 4, which becomes t; every other byte of the sector
\* is what was read.
C6_PatchStep ==
    (/\ nops' = nops + 1
     /\ call'.op = "write_partitiontype"
     /\ call'.err = "OK"
     /\ call'.nr \in 1..4)
    => \A j \in 0..511 :
          disk'[cfg.blkstart][j] =
              IF j = 446 + 16 * (call'.nr - 1) + 4 THEN call'.type
              ELSE disk[cfg.blkstart][j]

\* C6, over all steps: every successful blockio_write_partitiontype with nr
\* in 1..4 changes only the type byte of entry nr - 1 of the sector at
\* cfg.blkstart.
C6_PatcherFrame == [][C6_PatchStep]_vars

\* C6 witness: entry 2 (nr = 3) of a foreign table with boot code and four
\* used entries was patched; its neighbours still hold their types
C6_Witness ==
    /\ call.op = "write_partitiontype" /\ call.err = "OK" /\ call.nr = 3
    /\ disk[cfg.blkstart][0] # 0
    /\ EntryType(disk[cfg.blkstart], 2) = call.type
    /\ EntryType(disk[cfg.blkstart], 1) # EntryType(disk[cfg.blkstart], 3)
    /\ EntryCount(disk[cfg.blkstart], 2) # 0

\* C7: for nr in 1..4, when the read succeeded and bytes 510..511 of the
\* sector are not 0x55 0xAA, blockio_select_partition returns
\* BLOCKIO_ERROR_WRONG_MBR_SIGNATURE with *blkstart = *blkcount = 0, whatever
\* the entries hold and whether or not impl.sanity_check is present.
C7_WrongSignatureRejected ==
    (SelectRead /\ (disk[cfg.blkstart][510] # 85 \/ disk[cfg.blkstart][511] # 170))
    => /\ call.err = "BLOCKIO_ERROR_WRONG_MBR_SIGNATURE"
       /\ call.blkstart = 0
       /\ call.blkcount = 0

\* C7 witness: a sector with used, valid entries and only the low signature
\* byte right, on a device that has a sanity_check, was rejected
C7_Witness ==
    /\ SelectRead
    /\ impl.sanity_check # "none"
    /\ disk[cfg.blkstart][510] = 85 /\ disk[cfg.blkstart][511] # 170
    /\ EntryCount(disk[cfg.blkstart], call.nr - 1) # 0
    /\ call.err = "BLOCKIO_ERROR_WRONG_MBR_SIGNATURE"

\* the sector the last blockio_select_partition read carries the signature
SignedRead ==
    SelectRead /\ disk[cfg.blkstart][510] = 85 /\ disk[cfg.blkstart][511] = 170

\* start + count <= total as natural numbers (no 32-bit wraparound)
FitsDevice(start, count, total) ==
    NoCarry(start, count) /\ ULe(AddW(start, count), total)

\* the last blockio_select_partition returned the type and the extent of
\* the entry it was asked for
SelectSucceeded ==
    /\ call.err = "OK"
    /\ call.val = EntryType(disk[cfg.blkstart], call.nr - 1)
    /\ call.blkstart = EntryStart(disk[cfg.blkstart], call.nr - 1)
    /\ call.blkcount = EntryCount(disk[cfg.blkstart], call.nr - 1)

\* the last blockio_select_partition failed validation
SelectRejected ==
    call.err = "BLOCKIO_ERROR_IO" /\ call.blkstart = 0 /\ call.blkcount = 0

\* C8: without impl.sanity_check, blockio_select_partition on a signed
\* sector succeeds exactly when start + count <= cfg.blktotal without
\* wraparound; otherwise it returns BLOCKIO_ERROR_IO with
\* *blkstart = *blkcount = 0.
C8_FallbackBounds ==
    (SignedRead /\ impl.sanity_check = "none")
    => IF FitsDevice(EntryStart(disk[cfg.blkstart], call.nr - 1),
                     EntryCount(disk[cfg.blkstart], call.nr - 1), cfg.blktotal)
       THEN SelectSucceeded
       ELSE SelectRejected

\* C8 witness: an entry whose start + count wraps around 2^32 to a small
\* number was rejected
C8_Witness ==
    /\ SignedRead
    /\ impl.sanity_check = "none"
    /\ ~NoCarry(EntryStart(disk[cfg.blkstart], call.nr - 1),
                EntryCount(disk[cfg.blkstart], call.nr - 1))
    /\ SelectRejected

\* C9: with impl.sanity_check present, its verdict on (start, count,
\* cfg.blktotal) alone decides: FALSE gives BLOCKIO_ERROR_IO with the extent
\* reset to (0, 0), TRUE gives success even for an extent the fallback check
\* would reject.
C9_SanityCheckDecides ==
    (SignedRead /\ impl.sanity_check # "none")
    => IF SanityCheck(impl.sanity_check,
                      EntryStart(disk[cfg.blkstart], call.nr - 1),
                      EntryCount(disk[cfg.blkstart], call.nr - 1), cfg.blktotal)
       THEN SelectSucceeded
       ELSE SelectRejected

\* C9 witness: sanity_check accepted an extent that ends beyond the device
C9_Witness ==
    /\ SignedRead
    /\ impl.sanity_check # "none"
    /\ ~FitsDevice(EntryStart(disk[cfg.blkstart], call.nr - 1),
                   EntryCount(disk[cfg.blkstart], call.nr - 1), cfg.blktotal)
    /\ SelectSucceeded
    /\ call.blkcount # 0

\* C10: blockio_select_partition with valid pointers and nr outside 1..4
\* returns BLOCKIO_ERROR_IO without any posix_devctl or read_sectors call,
\* and *blkstart = *blkcount = 0.
C10_BadNrNoIo ==
    (call.op = "select_partition" /\ call.ptrs /\ call.nr \notin 1..4)
    => /\ call.err = "BLOCKIO_ERROR_IO"
       /\ call.io = <<>>
       /\ call.blkstart = 0
       /\ call.blkcount = 0

\* C10 witness: partition 5 was asked for on a device that holds a signed
\* table, and nothing was read
C10_Witness ==
    /\ call.op = "select_partition" /\ call.ptrs /\ call.nr = 5
    /\ disk[cfg.blkstart][510] = 85 /\ disk[cfg.blkstart][511] = 170
    /\ call.io = <<>>
    /\ call.err = "BLOCKIO_ERROR_IO"

\* both posix_devctl queries of the last call succeeded
QueriesOk ==
    Len(call.io) >= 2 /\ call.io[1] = DevctlImpl /\ call.io[2] = DevctlCfg

\* C11 (as claimed): the error blockio_select_partition returns for a
\* partition number outside 1..4 is a reason of its own, different from the
\* BLOCKIO_ERROR_IO it returns when a query or the read fails or the bounds
\* validation fails.
C11_BadNrDistinguishable ==
    (call.op = "select_partition" /\ call.ptrs /\ call.nr \notin 1..4)
    => call.err \notin {"OK", "BLOCKIO_ERROR_IO"}

\* floor(x / 2048) and x mod 2048 for the unsigned 32-bit number x
UDivMB(x) == IF x >= 0 THEN x \div 2048 ELSE ((x - INT32_MIN) \div 2048) + 1048576
URemMB(x) == IF x >= 0 THEN x % 2048 ELSE (x - INT32_MIN) % 2048

\* the megabytes the absolute slots of a size specification ask for
AbsoluteMB(size) ==
    (IF size[0] > 0 THEN size[0] ELSE 0) + (IF size[1] > 0 THEN size[1] ELSE 0)
    + (IF size[2] > 0 THEN size[2] ELSE 0) + (IF size[3] > 0 THEN size[3] ELSE 0)

\* The budget of a size specification on a device of total sectors, as a
\* natural-number computation: total - 1 - 2048 * AbsoluteMB(size)
\*   = 2048 * BudgetMB(size, total) + BudgetRest(total), 0 <= BudgetRest < 2048
BudgetMB(size, total) == UDivMB(SubW(total, 1)) - AbsoluteMB(size)
BudgetRest(total) == URemMB(SubW(total, 1))
BudgetNegative(size, total) == BudgetMB(size, total) < 0
BudgetZero(size, total) == BudgetMB(size, total) = 0 /\ BudgetRest(total) = 0

\* the step is a blockio_write_partitiontable on a device with 512-byte
\* sectors whose posix_devctl queries succeeded
WriterSizingStep ==
    /\ nops' = nops + 1
    /\ call'.op = "write_partitiontable"
    /\ cfg.blksize = 512
    /\ Len(call'.io) >= 2 /\ call'.io[1] = DevctlImpl /\ call'.io[2] = DevctlCfg

\* the step of C12: absolute slots that alone exceed cfg.blktotal - 1 make
\* the call return BLOCKIO_ERROR_FDISK_DISKFULL without a write_sectors
\* call, the device unchanged
C12_OverfullStep ==
    (WriterSizingStep /\ BudgetNegative(call'.size, cfg.blktotal))
    => /\ call'.err = "BLOCKIO_ERROR_FDISK_DISKFULL"
       /\ Len(call'.io) = 2
       /\ disk' = disk

\* C12 (as claimed), over all steps: a size specification whose absolute
\* slots alone, in sectors, exceed cfg.blktotal - 1 fails with DiskFull and
\* no write_sectors call is issued, so the first sector is unchanged.
C12_OverfullIsDiskFull == [][C12_OverfullStep]_vars

\* C13: on a device whose block size is not 512, with both queries
\* answered, blockio_write_partitiontable returns
\* BLOCKIO_ERROR_BLOCKSIZE_UNSUPPORTED without any read_sectors or
\* write_sectors call and with the caller's size array as it was given,
\* whatever the size specification is.
C13_BlockSizeFirst ==
    (call.op = "write_partitiontable" /\ QueriesOk /\ cfg.blksize # 512)
    => /\ call.err = "BLOCKIO_ERROR_BLOCKSIZE_UNSUPPORTED"
       /\ Len(call.io) = 2
       /\ call.out = call.size
       /\ disk[0] = ZeroSector

\* C13 witness: a specification with absolute slots, too large for the
\* device, was turned down for the block size and left as given
C13_Witness ==
    /\ call.op = "write_partitiontable" /\ QueriesOk /\ cfg.blksize = 1024
    /\ call.err = "BLOCKIO_ERROR_BLOCKSIZE_UNSUPPORTED"
    /\ BudgetNegative(call.size, cfg.blktotal)
    /\ call.size[0] > 0 /\ call.size[1] < 0
    /\ call.out = call.size

\* the size specification has a relative slot
HasRelative(size) == \E i \in 0..3 : size[i] < 0

\* C14 (as claimed): with block size 512 and both queries answered,
\* blockio_write_partitiontable returns BLOCKIO_ERROR_FDISK_DISKFULL exactly
\* when the budget (cfg.blktotal - 1 minus the sectors of the absolute slots)
\* is negative, or zero with a relative slot; otherwise sizing succeeds and
\* the table is handed to write_sectors.
C14_DiskFullExact ==
    (call.op = "write_partitiontable" /\ QueriesOk /\ cfg.blksize = 512)
    => IF \/ BudgetNegative(call.size, cfg.blktotal)
          \/ (BudgetZero(call.size, cfg.blktotal) /\ HasRelative(call.size))
       THEN call.err = "BLOCKIO_ERROR_FDISK_DISKFULL"
       ELSE WriterAccepted

\* the sum of the magnitudes of the relative slots
RelativeTotal(size) ==
    (IF size[0] < 0 THEN -size[0] ELSE 0) + (IF size[1] < 0 THEN -size[1] ELSE 0)
    + (IF size[2] < 0 THEN -size[2] ELSE 0) + (IF size[3] < 0 THEN -size[3] ELSE 0)

\* floor(b * w / rt) for 0 <= b < 2^31 and 0 < w <= rt, without forming b * w
FloorShare(b, w, rt) == (b \div rt) * w + ((b % rt) * w) \div rt

\* slot i of the last call holds the share floor(B * |v| / relative_total) of
\* the budget B = 2048 * BudgetMB + BudgetRest; a negative budget has no
\* share that is a number of sectors
HoldsShare(i) ==
    /\ BudgetMB(call.size, cfg.blktotal) >= 0
    /\ call.out[i] = FloorShare(2048 * BudgetMB(call.size, cfg.blktotal)
                                    + BudgetRest(cfg.blktotal),
                                -call.size[i], RelativeTotal(call.size))

\* C15 (as claimed): whenever blockio_write_partitiontable accepts a size
\* specification, every slot given as a negative value v resolves to
\* floor(B * |v| / relative_total), B the budget left after the absolute
\* slots: a function of B, |v| and relative_total only.
C15_RelativeSplit ==
    (WriterAccepted /\ BudgetMB(call.size, cfg.blktotal) < 1048576)
    => \A i \in 0..3 : call.size[i] < 0 => HoldsShare(i)

\* slot i of the caller's array holds, after the last call, the resolved
\* count of what was asked for
HoldsResolved(i) ==
    CASE call.size[i] > 0 ->
            call.size[i] <= INT32_MAX \div 2048 /\ call.out[i] = call.size[i] * 2048
      [] call.size[i] = 0 -> call.out[i] = 0
      [] OTHER -> call.out[i] >= 0

\* C16 (as claimed): when blockio_write_partitiontable returns success the
\* caller's array holds v * 2048 for a slot given as v > 0 megabytes, 0 for
\* a slot given as 0 and a non-negative share for a relative slot, and these
\* are the sector counts of the table written.
C16_OutputArray ==
    WriterReturned("OK")
    => \A i \in 0..3 : HoldsResolved(i) /\ EntryCount(disk[0], i) = call.out[i]

\* the 16 bytes of entry i of a sector are zero
EntryZero(buf, i) == \A k \in 0..15 : buf[446 + 16 * i + k] = 0

\* the value returned is floor(leftover * 512 / 1048576) for the leftover
\* cfg.blktotal - 1 - (sum of the resolved counts), which is not negative
ReturnsLeftover ==
    /\ call.val >= 0
    /\ WithinTotal(call.out, cfg.blktotal)
    /\ call.val = UDivMB(SubW(cfg.blktotal, SumFrom(call.out, 1, 0)))

\* C17 (as claimed): on success blockio_write_partitiontable returns the
\* unallocated space in MB, floor(leftover * 512 / 1048576), never negative;
\* the specification [0, 0, 0, 0] succeeds on any device with block size 512,
\* returns (cfg.blktotal - 1) * 512 / 1048576 and writes four zero entries.
C17_ReturnsLeftoverMB ==
    /\ WriterReturned("OK") => ReturnsLeftover
    /\ (call.op = "write_partitiontable" /\ QueriesOk /\ cfg.blksize = 512
        /\ call.size = NoSize)
       => /\ WriterAccepted
          /\ call.err = "OK" =>
                /\ call.val = UDivMB(SubW(cfg.blktotal, 1))
                /\ \A i \in 0..3 : EntryZero(disk[0], i)

\* the last call was blockio_write_partitiontable( fd, { 10, -1, -4, 0 } ) on
\* a device of 1048576 sectors of 512 bytes, both queries answered
ScenarioA ==
    /\ call.op = "write_partitiontable" /\ QueriesOk
    /\ cfg.blksize = 512 /\ cfg.blktotal = 1048576
    /\ call.size = Size4(10, -1, -4, 0)

\* C18: blockio_write_partitiontable( fd, { 10, -1, -4, 0 } ) on a device of
\* 1048576 sectors of 512 bytes resolves the slots to 20480, 205619, 822476
\* and 0 sectors with 0 sectors left, and returns 0 MB when the write
\* succeeds.
C18_ScenarioA ==
    ScenarioA
    => /\ WriterAccepted
       /\ call.out = Size4(20480, 205619, 822476, 0)
       /\ call.sectorsleft = 0
       /\ call.io[3].ret = 1 => (call.err = "OK" /\ call.val = 0)

\* C18 witness: the call of the scenario returned success
C18_Witness == ScenarioA /\ call.err = "OK" /\ call.out[2] = 822476

\* a sector as blockio_write_partitiontable builds it for the resolved
\* counts out: boot code zero, state, geometry and type of every entry zero,
\* unused entries all zero, signature bytes 0x55 0xAA
FreshTable(buf, out) ==
    /\ \A j \in 0..445 : buf[j] = 0
    /\ \A i \in 0..3 : \A k \in 0..7 : buf[446 + 16 * i + k] = 0
    /\ \A i \in 0..3 : out[i] = 0 => EntryZero(buf, i)
    /\ buf[510] = 85 /\ buf[511] = 170

\* C19: the sector a successful blockio_write_partitiontable leaves at LBA 0
\* is built fresh, whatever the sector held before: boot code, state,
\* geometry and type bytes are 0, unused slots are 16 zero bytes and the
\* signature is 0xAA55.
C19_FreshSector == WriterReturned("OK") => FreshTable(disk[0], call.out)

\* C19 witness: a table with three used slots and an unused one was written
\* as the second call on a device
C19_Witness ==
    /\ WriterReturned("OK") /\ nops = 2
    /\ call.size = Size4(1, -1, -2, 0)
    /\ EntryCount(disk[0], 0) = 2048 /\ EntryCount(disk[0], 2) # 0
    /\ EntryType(disk[0], 1) = 0
    /\ EntryZero(disk[0], 3)

\* the bytes at off..off+3 of buf are the 32-bit pattern x, least
\* significant byte first
StoredLsbFirst(buf, off, x) ==
    /\ buf[off] + 256 * buf[off + 1] + 65536 * buf[off + 2] = x % 16777216
    /\ buf[off + 3] = (x \div 16777216) % 256

\* the sector offsets the stores of one entry and the signature may touch
CodecBytes(i) ==
    {446 + 16 * i + 4} \cup ((446 + 16 * i + 8)..(446 + 16 * i + 15)) \cup {510, 511}

\* C20: entry i occupies bytes 446 + 16 * i .. 446 + 16 * i + 15 with type
\* at +4, start at +8..+11 and count at +12..+15, least significant byte
\* first, the signature 0xAA55 is byte 510 = 0x55, byte 511 = 0xAA, and
\* decoding the bytes returns the values encoded.
C20_LayoutRoundTrip ==
    call.op = "codec"
    => /\ disk[0][446 + 16 * (call.nr - 1) + 4] = call.type
       /\ StoredLsbFirst(disk[0], 446 + 16 * (call.nr - 1) + 8, call.blkstart)
       /\ StoredLsbFirst(disk[0], 446 + 16 * (call.nr - 1) + 12, call.blkcount)
       /\ disk[0][510] = call.val % 256 /\ disk[0][511] = call.val \div 256
       /\ call.val = 43605 => (disk[0][510] = 85 /\ disk[0][511] = 170)
       /\ \A j \in (0..511) \ CodecBytes(call.nr - 1) : disk[0][j] = written.sector[j]
       /\ EntryType(disk[0], call.nr - 1) = call.type
       /\ EntryStart(disk[0], call.nr - 1) = call.blkstart
       /\ EntryCount(disk[0], call.nr - 1) = call.blkcount
       /\ read_little16from16(disk[0], SignatureOffset) = call.val

\* C20 witness: entry 2 was stored with start 0x12345678 and a count with
\* the top bit set, under the signature 0xAA55, into a sector of 0xFF bytes
C20_Witness ==
    /\ call.op = "codec" /\ call.nr = 3
    /\ call.blkstart = 305419896 /\ call.blkcount = INT32_MIN /\ call.type = 131
    /\ call.val = 43605
    /\ disk[0][486] = 120 /\ disk[0][489] = 18 /\ disk[0][493] = 128
    /\ disk[0][0] = 255

\* the step is a blockio_write_partitiontype whose posix_devctl queries
\* succeeded
PatcherStep ==
    /\ nops' = nops + 1
    /\ call'.op = "write_partitiontype"
    /\ Len(call'.io) >= 2 /\ call'.io[1] = DevctlImpl /\ call'.io[2] = DevctlCfg

\* the step of C21: the read_sectors call comes third; when it returned
\* anything but 1 the call returns BLOCKIO_ERROR_IO, no write_sectors call
\* follows and the disk is unchanged; when write_sectors returned anything
\* but 1 the call returns BLOCKIO_ERROR_IO; the call returns 0 only after a
\* read_sectors and a write_sectors that both returned 1.
C21_PatcherErrorsStep ==
    PatcherStep
    => /\ Len(call'.io) >= 3 /\ call'.io[3].fn = "read_sectors"
       /\ call'.io[3].ret # 1 =>
             /\ call'.err = "BLOCKIO_ERROR_IO"
             /\ Len(call'.io) = 3
             /\ disk' = disk
       /\ (Len(call'.io) = 4 /\ call'.io[4].ret # 1) => call'.err = "BLOCKIO_ERROR_IO"
       /\ call'.err = "OK" =>
             /\ Len(call'.io) = 4
             /\ call'.io[3].ret = 1
             /\ call'.io[4].fn = "write_sectors" /\ call'.io[4].ret = 1

\* C21, over all steps: blockio_write_partitiontype returns BLOCKIO_ERROR_IO
\* whenever read_sectors does not return 1, then without a write_sectors
\* call and with the sector unchanged, returns BLOCKIO_ERROR_IO whenever
\* write_sectors does not return 1, and returns 0 only when both returned 1.
C21_PatcherErrors == [][C21_PatcherErrorsStep]_vars

\* C21 witness: read_sectors returned 0 sectors from a signed sector with
\* used entries; the call failed and entry nr - 1 kept its type
C21_Witness ==
    /\ call.op = "write_partitiontype" /\ call.nr = 2 /\ call.err = "BLOCKIO_ERROR_IO"
    /\ Len(call.io) = 3 /\ call.io[3] = IoEvent("read_sectors", cfg.blkstart, 0)
    /\ SignatureOk(disk[cfg.blkstart])
    /\ EntryType(disk[cfg.blkstart], 1) # call.type

\* both concurrent invocations have returned 0
BothPatched ==
    /\ DOMAIN patcher = Threads
    /\ \A t \in Threads : patcher[t].pc = "done" /\ patcher[t].ret = "OK"

\* one invocation made its write_sectors call before the other made its
\* read_sectors call
Serialized ==
    patcher[1].wrAt < patcher[2].rdAt \/ patcher[2].wrAt < patcher[1].rdAt

\* the sector at cfg.blkstart holds the type of invocation t in its entry
TypePresent(t) ==
    EntryType(disk[cfg.blkstart], patcher[t].nr - 1) = patcher[t].type

\* C22: of two blockio_write_partitiontype calls for different entries that
\* both returned 0, both type bytes are in the sector when the calls were
\* serialized; when both read before either wrote, the sector holds the type
\* of the call that wrote last and not the type of the other (lost update).
C22_LostUpdate ==
    BothPatched
    => IF Serialized
       THEN \A t \in Threads : TypePresent(t)
       ELSE \E t \in Threads :
               /\ \A o \in Threads : patcher[o].wrAt <= patcher[t].wrAt
               /\ TypePresent(t)
               /\ \A o \in Threads \ {t} : ~TypePresent(o)

\* C22 witness: both calls returned 0, both had read before either wrote,
\* and the type of the first writer is missing from the sector
C22_Witness ==
    /\ BothPatched
    /\ patcher[1].rdAt < patcher[2].wrAt /\ patcher[2].rdAt < patcher[1].wrAt
    /\ patcher[1].wrAt < patcher[2].wrAt
    /\ TypePresent(2) /\ ~TypePresent(1)
    /\ SignatureOk(disk[cfg.blkstart])

\* the step of C23: a blockio_select_partition leaves the disk as it is, and
\* when it directly follows a blockio_select_partition with the same
\* arguments, and the device answers its calls as it did then, it returns
\* the same value and leaves the same *blkstart and *blkcount.
C23_IdempotentStep ==
    (nops' = nops + 1 /\ call'.op = "select_partition")
    => /\ disk' = disk
       /\ (/\ call.op = "select_partition"
           /\ call'.nr = call.nr /\ call'.ptrs = call.ptrs
           /\ call'.io = call.io)
          => /\ call'.err = call.err
             /\ call'.val = call.val
             /\ call'.blkstart = call.blkstart
             /\ call'.blkcount = call.blkcount

SectorIo(e) == e.fn \in {"read_sectors", "write_sectors"}

\* the device call of log entry e failed or fell short
IoFailed(e) == IF SectorIo(e) THEN e.ret # 1 ELSE e.ret < 0

\* C24: the device calls of every operation are a prefix of: the
\* DEVCTL_BLOCKIO_IMPL query, the DEVCTL_BLOCKIO_CFG query, then at most one
\* read_sectors and at most one write_sectors call, each for 1 sector.
\* blockio_write_partitiontable makes no read and at most one write, last;
\* blockio_select_partition at most one read and no write;
\* blockio_write_partitiontype at most one read, then at most one write and
\* only after a read that returned 1.  A call that failed or fell short is
\* the last call made, and the operation returns BLOCKIO_ERROR_IO.
C24_BoundedIo ==
    call.op \in {"write_partitiontable", "write_partitiontype", "select_partition"}
    => /\ Len(call.io) <= 4
       /\ Len(call.io) = 0 =>
             (call.op = "select_partition" /\ (~call.ptrs \/ call.nr \notin 1..4))
       /\ Len(call.io) >= 1 => call.io[1].fn = "DEVCTL_BLOCKIO_IMPL"
       /\ Len(call.io) >= 2 => call.io[2].fn = "DEVCTL_BLOCKIO_CFG"
       /\ \A k \in 1..Len(call.io) :
             /\ SectorIo(call.io[k]) =>
                   /\ k >= 3
                   /\ call.io[1] = DevctlImpl /\ call.io[2] = DevctlCfg
                   /\ call.io[k].count = 1
             /\ IoFailed(call.io[k]) =>
                   (k = Len(call.io) /\ call.err = "BLOCKIO_ERROR_IO")
       /\ CASE call.op = "write_partitiontable" ->
                  /\ Len(call.io) <= 3
                  /\ Len(call.io) = 3 => call.io[3].fn = "write_sectors"
            [] call.op = "select_partition" ->
                  /\ Len(call.io) <= 3
                  /\ Len(call.io) = 3 => call.io[3].fn = "read_sectors"
            [] OTHER ->
                  /\ Len(call.io) >= 3 => call.io[3].fn = "read_sectors"
                  /\ Len(call.io) = 4 =>
                        (call.io[4].fn = "write_sectors" /\ call.io[3].ret = 1)

\* C24 witness: the write_sectors call of blockio_write_partitiontype wrote
\* no sector; it was the fourth and last device call and the operation
\* returned BLOCKIO_ERROR_IO
C24_Witness ==
    /\ call.op = "write_partitiontype" /\ call.nr \in 1..4
    /\ Len(call.io) = 4
    /\ call.io[3] = IoEvent("read_sectors", cfg.blkstart, 1)
    /\ call.io[4] = IoEvent("write_sectors", cfg.blkstart, 0)
    /\ call.err = "BLOCKIO_ERROR_IO"

\* C25 (as claimed): whenever blockio_write_partitiontable accepts a size
\* specification, every slot given as a negative value resolves to a nonzero
\* sector count, and the table written has a used entry for it.
C25_RelativeNonEmpty ==
    WriterAccepted
    => \A i \in 0..3 :
          call.size[i] < 0 =>
             /\ call.out[i] # 0
             /\ call.err = "OK" => ~EntryZero(disk[0], i)

\* the step of C26: a blockio_write_partitiontype with nr outside 1..4
\* returns an error and leaves the disk as it is; no
\* blockio_write_partitiontype changes a byte of a sector other than the
\* four type bytes (offsets 450, 466, 482, 498) or stores outside its
\* sector buffer.
C26_BadNrStep ==
    (nops' = nops + 1 /\ call'.op = "write_partitiontype")
    => /\ call'.nr \notin 1..4 =>
             (call'.err \notin {"OK", "TRAP"} /\ disk' = disk)
       /\ \A lba \in DOMAIN disk : \A j \in 0..511 :
             disk'[lba][j] # disk[lba][j] => j \in {450, 466, 482, 498}
       /\ ~call'.oob

\* C26 (as claimed), over all steps: blockio_write_partitiontype with a
\* partition number outside 1..4 returns an error and never modifies the
\* device; no call changes a byte outside the four type bytes, and none
\* writes memory outside the 512-byte sector buffer.
C26_BadNrRejected == [][C26_BadNrStep]_vars

\* the last call was a blockio_write_partitiontable that returned before its
\* write_sectors call: a query failed, the block size is not supported, or
\* the disk is full
WriterFailedEarly ==
    /\ call.op = "write_partitiontable"
    /\ Len(call.io) < 3
    /\ call.err \in {"BLOCKIO_ERROR_IO", "BLOCKIO_ERROR_BLOCKSIZE_UNSUPPORTED",
                     "BLOCKIO_ERROR_FDISK_DISKFULL"}

\* C27 (as claimed): when blockio_write_partitiontable fails with DiskFull,
\* with an unsupported block size or on a failed query, the caller's size
\* array holds the values passed in; it is rewritten only on the path that
\* reaches write_sectors.
C27_FailureKeepsArray == WriterFailedEarly => call.out = call.size

\* slot i of the last call, given as v > 0 megabytes, resolved to exactly
\* v * 2048 sectors, and the table written holds that count
ResolvedExactly(i) ==
    /\ call.size[i] <= INT32_MAX \div 2048
    /\ call.out[i] = call.size[i] * 2048
    /\ call.err = "OK" => EntryCount(disk[0], i) = call.out[i]

\* C28 (as claimed): with block size 512 and both queries answered,
\* blockio_write_partitiontable either fails with DiskFull or accepts a
\* request that fits the device and resolves every slot given as v > 0 to
\* exactly v * 2048 sectors; no wraparound of v * 2048, of the running budget
\* or of cfg.blktotal - 1 lets an oversized request through or puts a
\* different count into the table.
C28_AbsolutePassSafe ==
    (call.op = "write_partitiontable" /\ QueriesOk /\ cfg.blksize = 512)
    => \/ call.err = "BLOCKIO_ERROR_FDISK_DISKFULL"
       \/ /\ WriterAccepted
          /\ ~BudgetNegative(call.size, cfg.blktotal)
          /\ \A i \in 0..3 : call.size[i] > 0 => ResolvedExactly(i)

\* the number of slots given as a relative (negative) value
RelativeSlots(size) == Cardinality({ i \in 0..3 : size[i] < 0 })

\* C29 (as claimed): whenever an accepted size specification has k >= 1
\* relative slots, the sectors left over after the relative pass number at
\* least 0 and at most k - 1, so the leftover returned in MB is 0; a
\* leftover of 1 MB or more occurs only when no slot is relative.
C29_RoundingLossBounded ==
    /\ (WriterAccepted /\ HasRelative(call.size))
       => /\ call.sectorsleft >= 0
          /\ call.sectorsleft <= RelativeSlots(call.size) - 1
          /\ call.err = "OK" => call.val = 0
    /\ (WriterReturned("OK") /\ call.val # 0) => ~HasRelative(call.size)

\* entry i of the sector buf is used
EntryUsed(buf, i) == EntryCount(buf, i) # 0

\* the extent [start, start + count) of entry i ends at or before sector x,
\* start, count and x read as unsigned numbers and added without wraparound
EndsBy(buf, i, x) ==
    /\ NoCarry(EntryStart(buf, i), EntryCount(buf, i))
    /\ ULe(AddW(EntryStart(buf, i), EntryCount(buf, i)), x)

\* sector x lies in the extent of entry i
Holds(buf, i, x) == ULe(EntryStart(buf, i), x) /\ ~EndsBy(buf, i, x)

\* C30 (as claimed): in the table a successful blockio_write_partitiontable
\* leaves at LBA 0 the extents of the used entries are pairwise disjoint and
\* in increasing slot order, and none of them holds LBA 0, where the table
\* is written, or cfg.blkstart, where blockio_select_partition and
\* blockio_write_partitiontype read it.
C30_ExtentsDisjoint ==
    WriterReturned("OK")
    => /\ \A i, k \in 0..3 :
             (i < k /\ EntryUsed(disk[0], i) /\ EntryUsed(disk[0], k))
             => EndsBy(disk[0], i, EntryStart(disk[0], k))
       /\ \A i \in 0..3 :
             EntryUsed(disk[0], i)
             => (~Holds(disk[0], i, 0) /\ ~Holds(disk[0], i, cfg.blkstart))

====
